---- MODULE Spec2Model ----
(***************************************************************************)
(* A model of the Trie of src/src/trie.py: the node graph owned by _root,  *)
(* the cached counter _size, and the public operations insert, delete,     *)
(* search, starts_with, count_prefix and get_words_with_prefix.            *)
(*                                                                         *)
(* A TrieNode is a record [children, is_end].  children models the Python  *)
(* dict of the node: a sequence of items [ch, node] in the dict's          *)
(* insertion order, with one item per key.  A str is a sequence of         *)
(* one-character strings.  An Optional value is None or the value itself;  *)
(* an Optional[int] is None or Some(k).                                    *)
(***************************************************************************)
EXTENDS Integers, Sequences, FiniteSets, TLC

VARIABLES _root, _size, op, arg, ret, inserted, deleted, live

vars == <<_root, _size, op, arg, ret, inserted, deleted, live>>

trie == <<_root, _size>>

hist == <<inserted, deleted, live>>

(***************************************************************************)
(* Bounds of the model.                                                    *)
(***************************************************************************)
\* the longest word or prefix passed to an operation
MaxLen == 2

\* the largest number of words stored at once
MaxWords == 2

\* the largest integer limit passed to get_words_with_prefix
MaxLimit == 2

\* the largest number of distinct words inserted in a run that keeps history
MaxDistinct == 2

Alphabet == {"a", "b"}

Words == UNION {[1..n -> Alphabet] : n \in 0..MaxLen}

None == <<>>

Some(x) == <<x>>

Limits == {None} \cup {Some(k) : k \in 0..MaxLimit}

(***************************************************************************)
(* TrieNode and the dict operations the Trie uses on node.children.        *)
(***************************************************************************)
TrieNode == [children |-> <<>>, is_end |-> FALSE]

\* ch in d
Has(d, ch) == \E i \in DOMAIN d : d[i].ch = ch

\* d.get(ch)
Get(d, ch) ==
    IF Has(d, ch) THEN d[CHOOSE i \in DOMAIN d : d[i].ch = ch].node ELSE None

\* d[ch] = n : a new key goes last, a present key keeps its place
Put(d, ch, n) ==
    IF Has(d, ch)
    THEN [i \in DOMAIN d |-> IF d[i].ch = ch THEN [ch |-> ch, node |-> n] ELSE d[i]]
    ELSE Append(d, [ch |-> ch, node |-> n])

\* del d[ch]
Del(d, ch) == SelectSeq(d, LAMBDA e : e.ch # ch)

(***************************************************************************)
(* _traverse, search, starts_with.                                         *)
(***************************************************************************)
RECURSIVE walk(_, _, _)
walk(node, string, i) ==
    IF i > Len(string) THEN node
    ELSE LET next == Get(node.children, string[i])
         IN  IF next = None THEN None ELSE walk(next, string, i + 1)

_traverse(root, string) == walk(root, string, 1)

search(root, word) ==
    LET node == _traverse(root, word)
    IN  node # None /\ node.is_end

starts_with(root, prefix) == _traverse(root, prefix) # None

(***************************************************************************)
(* insert.                                                                 *)
(***************************************************************************)
\* the loop of insert: follow or create one child per character
RECURSIVE insertLoop(_, _, _)
\* a faulty loop: it sets node.children[ch] = TrieNode() without testing
\* `ch not in node.children`
insertLoop_overwritesChild(node, word, i) ==
    IF i > Len(word) THEN node
    ELSE LET ch == word[i]
             d  == Put(node.children, ch, TrieNode)
         IN  [node EXCEPT !.children = Put(d, ch, insertLoop(Get(d, ch), word, i + 1))]

insertLoop(node, word, i) ==
    IF i > Len(word) THEN node
    ELSE LET ch == word[i]
             d  == IF ~Has(node.children, ch)
                   THEN Put(node.children, ch, TrieNode)
                   ELSE node.children
         IN  [node EXCEPT !.children = Put(d, ch, insertLoop(Get(d, ch), word, i + 1))]

\* node.is_end = True on the node the loop ended at
RECURSIVE markEnd(_, _, _)
markEnd(node, word, i) ==
    IF i > Len(word) THEN [node EXCEPT !.is_end = TRUE]
    ELSE LET ch == word[i]
         IN  [node EXCEPT !.children = Put(@, ch, markEnd(Get(@, ch), word, i + 1))]

\* a faulty insert: it counts the word without testing `not node.is_end`
insert_countsEveryCall(root, size, word) ==
    IF word = <<>> THEN [root |-> root, size |-> size]
    ELSE [root |-> markEnd(insertLoop(root, word, 1), word, 1), size |-> size + 1]

\* a faulty insert: it does not return at once on the empty word
insert_storesEmptyWord(root, size, word) ==
    LET walked == insertLoop(root, word, 1)
        node   == _traverse(walked, word)
    IN  IF ~node.is_end
        THEN [root |-> markEnd(walked, word, 1), size |-> size + 1]
        ELSE [root |-> walked, size |-> size]

\* the trie after insert(word): [root, size]
insert(root, size, word) ==
    IF word = <<>> THEN [root |-> root, size |-> size]
    ELSE LET walked == insertLoop(root, word, 1)
             node   == _traverse(walked, word)
         IN  IF ~node.is_end
             THEN [root |-> markEnd(walked, word, 1), size |-> size + 1]
             ELSE [root |-> walked, size |-> size]

(***************************************************************************)
(* delete.                                                                 *)
(***************************************************************************)
\* the inner _delete(node, depth): the node and the counter after the call,
\* and the value it returns (prune this node)
RECURSIVE _delete(_, _, _, _)
\* a faulty _delete: on the way up it prunes a childless node without
\* testing `not node.is_end`
_delete_pruneIgnoresIsEnd(node, size, word, depth) ==
    IF depth = Len(word)
    THEN IF ~node.is_end
         THEN [node |-> node, size |-> size, prune |-> FALSE]
         ELSE [node  |-> [node EXCEPT !.is_end = FALSE],
               size  |-> size - 1,
               prune |-> Len(node.children) = 0]
    ELSE LET ch    == word[depth + 1]
             child == Get(node.children, ch)
         IN  IF child = None
             THEN [node |-> node, size |-> size, prune |-> FALSE]
             ELSE LET r    == _delete(child, size, word, depth + 1)
                      kept == [node EXCEPT !.children = Put(@, ch, r.node)]
                      cut  == [node EXCEPT !.children = Del(@, ch)]
                  IN  IF r.prune
                      THEN [node  |-> cut,
                            size  |-> r.size,
                            prune |-> Len(cut.children) = 0]
                      ELSE [node |-> kept, size |-> r.size, prune |-> FALSE]

\* a faulty _delete: it clears is_end without `self._size -= 1`
_delete_keepsCount(node, size, word, depth) ==
    IF depth = Len(word)
    THEN IF ~node.is_end
         THEN [node |-> node, size |-> size, prune |-> FALSE]
         ELSE [node  |-> [node EXCEPT !.is_end = FALSE],
               size  |-> size,
               prune |-> Len(node.children) = 0]
    ELSE LET ch    == word[depth + 1]
             child == Get(node.children, ch)
         IN  IF child = None
             THEN [node |-> node, size |-> size, prune |-> FALSE]
             ELSE LET r    == _delete(child, size, word, depth + 1)
                      kept == [node EXCEPT !.children = Put(@, ch, r.node)]
                      cut  == [node EXCEPT !.children = Del(@, ch)]
                  IN  IF r.prune
                      THEN [node  |-> cut,
                            size  |-> r.size,
                            prune |-> (~cut.is_end) /\ (Len(cut.children) = 0)]
                      ELSE [node |-> kept, size |-> r.size, prune |-> FALSE]

\* a faulty _delete: it prunes the word's node without testing
\* `len(node.children) == 0`
_delete_pruneIgnoresChildren(node, size, word, depth) ==
    IF depth = Len(word)
    THEN IF ~node.is_end
         THEN [node |-> node, size |-> size, prune |-> FALSE]
         ELSE [node  |-> [node EXCEPT !.is_end = FALSE],
               size  |-> size - 1,
               prune |-> TRUE]
    ELSE LET ch    == word[depth + 1]
             child == Get(node.children, ch)
         IN  IF child = None
             THEN [node |-> node, size |-> size, prune |-> FALSE]
             ELSE LET r    == _delete(child, size, word, depth + 1)
                      kept == [node EXCEPT !.children = Put(@, ch, r.node)]
                      cut  == [node EXCEPT !.children = Del(@, ch)]
                  IN  IF r.prune
                      THEN [node  |-> cut,
                            size  |-> r.size,
                            prune |-> (~cut.is_end) /\ (Len(cut.children) = 0)]
                      ELSE [node |-> kept, size |-> r.size, prune |-> FALSE]

\* a faulty _delete: it clears is_end and never asks for pruning
_delete_neverPrunes(node, size, word, depth) ==
    IF depth = Len(word)
    THEN IF ~node.is_end
         THEN [node |-> node, size |-> size, prune |-> FALSE]
         ELSE [node  |-> [node EXCEPT !.is_end = FALSE],
               size  |-> size - 1,
               prune |-> FALSE]
    ELSE LET ch    == word[depth + 1]
             child == Get(node.children, ch)
         IN  IF child = None
             THEN [node |-> node, size |-> size, prune |-> FALSE]
             ELSE LET r    == _delete(child, size, word, depth + 1)
                      kept == [node EXCEPT !.children = Put(@, ch, r.node)]
                      cut  == [node EXCEPT !.children = Del(@, ch)]
                  IN  IF r.prune
                      THEN [node  |-> cut,
                            size  |-> r.size,
                            prune |-> (~cut.is_end) /\ (Len(cut.children) = 0)]
                      ELSE [node |-> kept, size |-> r.size, prune |-> FALSE]

\* a faulty _delete: it removes the word's node and does not go on pruning
\* the ancestors
_delete_prunesLeafOnly(node, size, word, depth) ==
    IF depth = Len(word)
    THEN IF ~node.is_end
         THEN [node |-> node, size |-> size, prune |-> FALSE]
         ELSE [node  |-> [node EXCEPT !.is_end = FALSE],
               size  |-> size - 1,
               prune |-> Len(node.children) = 0]
    ELSE LET ch    == word[depth + 1]
             child == Get(node.children, ch)
         IN  IF child = None
             THEN [node |-> node, size |-> size, prune |-> FALSE]
             ELSE LET r    == _delete(child, size, word, depth + 1)
                      kept == [node EXCEPT !.children = Put(@, ch, r.node)]
                      cut  == [node EXCEPT !.children = Del(@, ch)]
                  IN  IF r.prune
                      THEN [node  |-> cut,
                            size  |-> r.size,
                            prune |-> FALSE]
                      ELSE [node |-> kept, size |-> r.size, prune |-> FALSE]

_delete(node, size, word, depth) ==
    IF depth = Len(word)
    THEN IF ~node.is_end
         THEN [node |-> node, size |-> size, prune |-> FALSE]
         ELSE [node  |-> [node EXCEPT !.is_end = FALSE],
               size  |-> size - 1,
               prune |-> Len(node.children) = 0]
    ELSE LET ch    == word[depth + 1]
             child == Get(node.children, ch)
         IN  IF child = None
             THEN [node |-> node, size |-> size, prune |-> FALSE]
             ELSE LET r    == _delete(child, size, word, depth + 1)
                      kept == [node EXCEPT !.children = Put(@, ch, r.node)]
                      cut  == [node EXCEPT !.children = Del(@, ch)]
                  IN  IF r.prune
                      THEN [node  |-> cut,
                            size  |-> r.size,
                            prune |-> (~cut.is_end) /\ (Len(cut.children) = 0)]
                      ELSE [node |-> kept, size |-> r.size, prune |-> FALSE]

\* a faulty delete: it takes the word as present when its path exists
delete_returnsPathExists(root, size, word) ==
    IF word = <<>> THEN [root |-> root, size |-> size, ret |-> FALSE]
    ELSE LET existed == starts_with(root, word)
             r       == _delete(root, size, word, 0)
         IN  [root |-> r.node, size |-> r.size, ret |-> existed]

\* the trie after delete(word) and the value returned: [root, size, ret]
delete(root, size, word) ==
    IF word = <<>> THEN [root |-> root, size |-> size, ret |-> FALSE]
    ELSE LET existed == search(root, word)
             r       == _delete(root, size, word, 0)
         IN  [root |-> r.node, size |-> r.size, ret |-> existed]

(***************************************************************************)
(* get_words_with_prefix, count_prefix, size, is_empty.                    *)
(***************************************************************************)
\* the inner dfs(n) of get_words_with_prefix: results after the call
RECURSIVE dfs(_, _, _, _)
\* a faulty dfs: it tests `len(results) > limit`
dfs_limitOffByOne(n, path, results, limit) ==
    IF limit # None /\ Len(results) > limit[1] THEN results
    ELSE LET RECURSIVE loop(_, _)
             loop(i, acc) ==
                 IF i > Len(n.children) THEN acc
                 ELSE loop(i + 1, dfs(n.children[i].node,
                                      Append(path, n.children[i].ch), acc, limit))
         IN  loop(1, IF n.is_end THEN Append(results, path) ELSE results)

\* a faulty dfs: it appends the node's own word after its descendants
dfs_ownWordLast(n, path, results, limit) ==
    IF limit # None /\ Len(results) >= limit[1] THEN results
    ELSE LET RECURSIVE loop(_, _)
             loop(i, acc) ==
                 IF i > Len(n.children) THEN acc
                 ELSE loop(i + 1, dfs(n.children[i].node,
                                      Append(path, n.children[i].ch), acc, limit))
             below == loop(1, results)
         IN  IF n.is_end THEN Append(below, path) ELSE below

dfs(n, path, results, limit) ==
    IF limit # None /\ Len(results) >= limit[1] THEN results
    ELSE LET RECURSIVE loop(_, _)
             \* for ch, child in n.children.items()
             loop(i, acc) ==
                 IF i > Len(n.children) THEN acc
                 ELSE loop(i + 1, dfs(n.children[i].node,
                                      Append(path, n.children[i].ch), acc, limit))
         IN  loop(1, IF n.is_end THEN Append(results, path) ELSE results)

get_words_with_prefix(root, prefix, limit) ==
    LET node == _traverse(root, prefix)
    IN  IF node = None THEN <<>> ELSE dfs(node, prefix, <<>>, limit)

\* the inner dfs(n) of count_prefix: count after the call
RECURSIVE countDfs(_, _)
countDfs(n, count) ==
    LET RECURSIVE loop(_, _)
        \* for child in n.children.values()
        loop(i, acc) ==
            IF i > Len(n.children) THEN acc
            ELSE loop(i + 1, countDfs(n.children[i].node, acc))
    IN  loop(1, IF n.is_end THEN count + 1 ELSE count)

\* a faulty count_prefix: it counts the words below the prefix node and not
\* the prefix itself
count_prefix_skipsPrefixNode(root, prefix) ==
    LET node == _traverse(root, prefix)
    IN  IF node = None THEN 0
        ELSE countDfs(node, 0) - (IF node.is_end THEN 1 ELSE 0)

count_prefix(root, prefix) ==
    LET node == _traverse(root, prefix)
    IN  IF node = None THEN 0 ELSE countDfs(node, 0)

size == _size

len == _size

is_empty == _size = 0

(***************************************************************************)
(* The state machine.                                                      *)
(***************************************************************************)
Init ==
    /\ _root = TrieNode
    /\ _size = 0
    /\ op = "init"
    /\ arg = <<>>
    /\ ret = None
    /\ inserted = {}
    /\ deleted = {}
    /\ live = {}

InsertCall(word) ==
    /\ word = <<>> \/ search(_root, word) \/ _size < MaxWords
    /\ LET r == insert(_root, _size, word)
       IN  /\ _root' = r.root
           /\ _size' = r.size
    /\ op' = "insert"
    /\ arg' = word
    /\ ret' = None

DeleteCall(word) ==
    /\ LET r == delete(_root, _size, word)
       IN  /\ _root' = r.root
           /\ _size' = r.size
           /\ ret' = r.ret
    /\ op' = "delete"
    /\ arg' = word

\* op and ret hold the last call and what it returned; arg holds the word an
\* insert or a delete was called with
Insert == \E word \in Words : InsertCall(word) /\ UNCHANGED hist

Delete == \E word \in Words : DeleteCall(word) /\ UNCHANGED hist

Search ==
    \E word \in Words :
        /\ op' = "search"
        /\ ret' = search(_root, word)
        /\ arg' = None
        /\ UNCHANGED <<trie, hist>>

StartsWith ==
    \E prefix \in Words :
        /\ op' = "starts_with"
        /\ ret' = starts_with(_root, prefix)
        /\ arg' = None
        /\ UNCHANGED <<trie, hist>>

CountPrefix ==
    \E prefix \in Words :
        /\ op' = "count_prefix"
        /\ ret' = count_prefix(_root, prefix)
        /\ arg' = None
        /\ UNCHANGED <<trie, hist>>

GetWordsWithPrefix ==
    \E prefix \in Words, limit \in Limits :
        /\ op' = "get_words_with_prefix"
        /\ ret' = get_words_with_prefix(_root, prefix, limit)
        /\ arg' = None
        /\ UNCHANGED <<trie, hist>>

\* insert and delete, with the history of the calls kept beside the trie:
\* inserted, the words ever inserted; deleted, the words a delete returned
\* True for; live, the words inserted and not deleted since
HistInsert ==
    \E word \in Words :
        /\ word \in inserted \/ Cardinality(inserted) < MaxDistinct
        /\ InsertCall(word)
        /\ inserted' = inserted \cup ({word} \ {<<>>})
        /\ live' = live \cup ({word} \ {<<>>})
        /\ UNCHANGED deleted

HistDelete ==
    \E word \in Words :
        /\ DeleteCall(word)
        /\ deleted' = IF ret' THEN deleted \cup {word} ELSE deleted
        /\ live' = IF ret' THEN live \ {word} ELSE live
        /\ UNCHANGED inserted

\* the mutating operations alone
Next ==
    \/ Insert
    \/ Delete

Spec == Init /\ [][Next]_vars

\* the mutating operations and the queries
NextQuery ==
    \/ Insert
    \/ Delete
    \/ Search
    \/ StartsWith
    \/ CountPrefix
    \/ GetWordsWithPrefix

SpecQuery == Init /\ [][NextQuery]_vars

\* the mutating operations with their history
NextHist ==
    \/ HistInsert
    \/ HistDelete

SpecHist == Init /\ [][NextHist]_vars

(***************************************************************************)
(* What the properties speak of.                                           *)
(***************************************************************************)
\* every node of the tree under `node`, with the path that leads to it
RECURSIVE Nodes(_, _)
Nodes(node, path) ==
    {[path |-> path, node |-> node]} \cup
    UNION {Nodes(node.children[i].node, Append(path, node.children[i].ch)) :
               i \in DOMAIN node.children}

Paths(root) == {x.path : x \in Nodes(root, <<>>)}

Terminals(root) == {x.path : x \in {y \in Nodes(root, <<>>) : y.node.is_end}}

IsPrefix(p, w) == Len(p) <= Len(w) /\ SubSeq(w, 1, Len(p)) = p

\* the words search finds
Stored(root) == {w \in Words : search(root, w)}

NonEmpty == Words \ {<<>>}

Range(seq) == {seq[i] : i \in DOMAIN seq}

(***************************************************************************)
(* C1: in every state reached by insert and delete calls, the counter      *)
(* size() and len() return equals the number of nodes whose is_end is      *)
(* true.                                                                   *)
(***************************************************************************)
C1_SizeCountsTerminalNodes ==
    /\ size = Cardinality({x \in Nodes(_root, <<>>) : x.node.is_end})
    /\ len = size

\* a delete took one of two stored words away
C1_Witness == op = "delete" /\ ret = TRUE /\ _size = 1

(***************************************************************************)
(* C2: for every word W, search(W) is true right after insert(W), and a    *)
(* step that is not delete(W) never turns search(W) from true to false.    *)
(* As stated, for all words, the empty word included.                      *)
(***************************************************************************)
C2_Original ==
    [][\A W \in Words :
          /\ (op' = "insert" /\ arg' = W) => search(_root', W)
          /\ (search(_root, W) /\ ~(op' = "delete" /\ arg' = W))
                 => search(_root', W)]_vars

(***************************************************************************)
(* C2 as amended: the same for every non-empty word W.                     *)
(***************************************************************************)
C2_InsertedStaysUntilDeleted ==
    [][\A W \in NonEmpty :
          /\ (op' = "insert" /\ arg' = W) => search(_root', W)
          /\ (search(_root, W) /\ ~(op' = "delete" /\ arg' = W))
                 => search(_root', W)]_vars

\* "ab" was deleted and "a", inserted before, is still found
C2_Witness ==
    /\ op = "delete" /\ arg = <<"a", "b">> /\ ret = TRUE
    /\ search(_root, <<"a">>)

C4_DeleteRemovesExactlyW ==
    [][\A W \in NonEmpty :
          (op' = "delete" /\ arg' = W) =>
              /\ ~search(_root', W)
              /\ \A V \in Words \ {W} : search(_root', V) = search(_root, V)]_vars

\* "a" was deleted and its extension "ab" is still found
C4_Witness ==
    /\ op = "delete" /\ arg = <<"a">> /\ ret = TRUE
    /\ search(_root, <<"a", "b">>)

(***************************************************************************)
(* C5: delete(W) returns true exactly when search(W) was true before the   *)
(* call, and when it was not the call leaves the counter and the whole     *)
(* tree as they were.                                                      *)
(***************************************************************************)
C5_DeleteReturnsPresence ==
    [][\A W \in Words :
          (op' = "delete" /\ arg' = W) =>
              /\ ret' = search(_root, W)
              /\ ~search(_root, W) => (_root' = _root /\ _size' = _size)]_vars

\* delete("a") returned false while "a" is only a prefix of the stored "ab"
C5_Witness ==
    /\ op = "delete" /\ arg = <<"a">> /\ ret = FALSE
    /\ search(_root, <<"a", "b">>)

(***************************************************************************)
(* C6: in every reachable state and for every prefix P, count_prefix(P)    *)
(* is the number of distinct stored words that begin with P, and           *)
(* count_prefix("") is size().                                             *)
(***************************************************************************)
C6_CountPrefixCountsStoredWords ==
    LET stored == Stored(_root)
    IN  /\ \A P \in Words :
               count_prefix(_root, P) =
                   Cardinality({w \in stored : IsPrefix(P, w)})
        /\ count_prefix(_root, <<>>) = size
        /\ op = "count_prefix" =>
               \E P \in Words :
                   ret = Cardinality({w \in stored : IsPrefix(P, w)})

\* count_prefix("a") counted a stored word and its stored extension
C6_Witness ==
    /\ op = "count_prefix" /\ ret = 2
    /\ search(_root, <<"a">>) /\ search(_root, <<"a", "b">>)
    /\ count_prefix(_root, <<"a">>) = 2

(***************************************************************************)
(* C7: get_words_with_prefix(P, limit=k) returns at most k words, each     *)
(* beginning with P and stored; with limit=None it returns every stored    *)
(* word beginning with P exactly once, and nothing when P has no path.     *)
(***************************************************************************)
C7_PrefixEnumeration ==
    LET stored == Stored(_root)
    IN  /\ \A P \in Words, k \in 0..MaxLimit :
               LET r == get_words_with_prefix(_root, P, Some(k))
               IN  /\ Len(r) <= k
                   /\ \A i \in DOMAIN r : IsPrefix(P, r[i]) /\ r[i] \in stored
        /\ \A P \in Words :
               LET r == get_words_with_prefix(_root, P, None)
               IN  /\ Range(r) = {w \in stored : IsPrefix(P, w)}
                   /\ Len(r) = Cardinality(Range(r))
                   /\ _traverse(_root, P) = None => r = <<>>
        /\ op = "get_words_with_prefix" =>
               /\ Range(ret) \subseteq stored
               /\ Len(ret) = Cardinality(Range(ret))

\* a limit of 1 cut a listing of two stored words to one
C7_Witness ==
    /\ op = "get_words_with_prefix"
    /\ ret = get_words_with_prefix(_root, <<"a">>, Some(1))
    /\ Len(ret) = 1
    /\ Len(get_words_with_prefix(_root, <<"a">>, None)) = 2

(***************************************************************************)
(* C8: after any delete call, no node of the tree has is_end false and no  *)
(* children.  As stated, of every node, the root included.                 *)
(***************************************************************************)
C8_Original ==
    op = "delete" =>
        \A x \in Nodes(_root, <<>>) :
            x.node.is_end \/ Len(x.node.children) > 0

(***************************************************************************)
(* C8 as amended: after any delete call, no node other than the root has   *)
(* is_end false and no children.                                           *)
(***************************************************************************)
C8_NoDeadBranchAfterDelete ==
    op = "delete" =>
        \A x \in Nodes(_root, <<>>) :
            x.path # <<>> => (x.node.is_end \/ Len(x.node.children) > 0)

\* deleting "ab" pruned the whole branch under "a"; another word is left
C8_Witness ==
    /\ op = "delete" /\ arg = <<"a", "b">> /\ ret = TRUE
    /\ <<"a">> \notin Paths(_root)
    /\ _size = 1

C10_InsertOnlyAdds ==
    [][\A W \in Words :
          (op' = "insert" /\ arg' = W) =>
              /\ search(_root, W) => (_root' = _root /\ _size' = _size)
              /\ Paths(_root) \subseteq Paths(_root')
              /\ Terminals(_root) \subseteq Terminals(_root')
              /\ Stored(_root) \subseteq Stored(_root')]_vars

\* "a" was inserted on the path of the stored "ab", which is still found
C10_Witness ==
    /\ op = "insert" /\ arg = <<"a">>
    /\ search(_root, <<"a", "b">>)
    /\ _size = 2

(***************************************************************************)
(* C11: the empty word is never stored: insert("") and delete("") leave    *)
(* the root and the counter as they were, delete("") returns false, and    *)
(* in every state search("") is false and starts_with("") is true.         *)
(***************************************************************************)
C11_EmptyWordIsNoOp ==
    [][/\ (op' \in {"insert", "delete"} /\ arg' = <<>>) =>
              (_root' = _root /\ _size' = _size)
       /\ (op' = "delete" /\ arg' = <<>>) => ret' = FALSE
       /\ ~search(_root, <<>>) /\ ~search(_root', <<>>)
       /\ ~_root.is_end /\ ~_root'.is_end
       /\ starts_with(_root, <<>>) /\ starts_with(_root', <<>>)]_vars

\* delete("") returned false on a trie that stores two words
C11_Witness ==
    /\ op = "delete" /\ arg = <<>> /\ ret = FALSE
    /\ _size = 2

(***************************************************************************)
(* C12: after any sequence of insert and delete calls the non-root node    *)
(* paths are exactly the non-empty prefixes of the stored words and the    *)
(* terminal nodes are exactly the stored words; insert of an absent word   *)
(* followed by its delete gives back the root and the counter.             *)
(***************************************************************************)
C12_ShapeFollowsStoredWords ==
    LET stored == Stored(_root)
    IN  /\ Paths(_root) \ {<<>>} =
               {p \in NonEmpty : \E w \in stored : IsPrefix(p, w)}
        /\ Terminals(_root) = stored
        /\ \A W \in NonEmpty \ stored :
               LET i == insert(_root, _size, W)
                   d == delete(i.root, i.size, W)
               IN  d.ret /\ d.root = _root /\ d.size = _size

\* "aa" was deleted: its node is gone and the node "a", which the stored "ab"
\* needs, is kept
C12_Witness ==
    /\ op = "delete" /\ arg = <<"a", "a">> /\ ret = TRUE
    /\ Paths(_root) = {<<>>, <<"a">>, <<"a", "b">>}
    /\ Terminals(_root) = {<<"a", "b">>}

(***************************************************************************)
(* C13: for every prefix P and every limit k >= 0,                         *)
(* get_words_with_prefix(P, limit=k) is the first min(k, n) elements of    *)
(* get_words_with_prefix(P, limit=None), n its length, and that list is    *)
(* the depth-first pre-order of the subtree at P: a node's own word, then  *)
(* its children's words in the order the node's dict iterates them.  The   *)
(* call leaves the root and the counter unchanged.                         *)
(***************************************************************************)
\* the words under `node` in depth-first pre-order
RECURSIVE PreOrder(_, _)
PreOrder(node, path) ==
    LET RECURSIVE below(_)
        below(i) ==
            IF i > Len(node.children) THEN <<>>
            ELSE PreOrder(node.children[i].node, Append(path, node.children[i].ch))
                     \o below(i + 1)
    IN  (IF node.is_end THEN <<path>> ELSE <<>>) \o below(1)

Min(a, b) == IF a <= b THEN a ELSE b

C13_LimitTakesPreOrderPrefix ==
    /\ [](\A P \in Words :
              LET all == get_words_with_prefix(_root, P, None)
                  node == _traverse(_root, P)
              IN  /\ all = IF node = None THEN <<>> ELSE PreOrder(node, P)
                  /\ \A k \in 0..MaxLimit :
                         get_words_with_prefix(_root, P, Some(k)) =
                             SubSeq(all, 1, Min(k, Len(all))))
    /\ [][op' = "get_words_with_prefix" =>
              (_root' = _root /\ _size' = _size)]_vars

\* "b" was inserted before "a": the listing of all words starts with "b", and
\* a limit of 1 returned "b" alone
C13_Witness ==
    /\ op = "get_words_with_prefix"
    /\ get_words_with_prefix(_root, <<>>, None) = << <<"b">>, <<"a">> >>
    /\ ret = << <<"b">> >>

====
